---- MODULE Spec2Model ----
(***************************************************************************)
(* Allowed-language sets of Site, Community and LocalUser                  *)
(* (crates/db_schema/src/impls/actor_language.rs).                         *)
(*                                                                         *)
(* The three association tables live in one PostgreSQL database.  Every    *)
(* update runs in a transaction opened with                                *)
(* conn.build_transaction().read_write(), i.e. at the default isolation    *)
(* level READ COMMITTED, so the model keeps row versions tagged with the   *)
(* inserting (xmin) and deleting (xmax) transaction and executes the       *)
(* handlers one SQL statement at a time.                                   *)
(***************************************************************************)
EXTENDS Integers, Sequences, FiniteSets, Bags, TLC

\* Longest requested language_ids vector.
MaxLen == 2
\* Number of update calls issued in one behaviour.
MaxCalls == 2

Range(s) == {s[j] : j \in DOMAIN s}

\* Language::read_all: the catalog rows, in the order the query returns them.
AllLanguages == <<1, 2>>
Catalog == Range(AllLanguages)
\* A LanguageId is a plain integer: callers may pass ids outside the catalog.
UnknownLanguage == 3
LanguageIds == Catalog \cup {UnknownLanguage}

\* Rows of the site table; Site::read_local is the row with the lowest id.
Sites == {1, 2}
LocalSite == 1
\* Rows of the community table and their `local` column.
Communities == {1, 2, 3}
local == [c \in Communities |-> c \in {1, 2}]
LocalUsers == {1, 2}

\* Database connections (one handler call runs on one connection).
Conns == {1, 2}

\* Row version tags: xmin = Done: the insert is committed;
\* xmax = Live: nobody deleted the row; xmax = Done: the delete is committed.
Done == 0
Live == -1

Tables == {"site_language", "community_language", "local_user_language"}
Owners(tbl) ==
  CASE tbl = "site_language" -> Sites
    [] tbl = "community_language" -> Communities
    [] tbl = "local_user_language" -> LocalUsers

\* The language_ids vectors a caller may pass (Vec<LanguageId>).
Requests == UNION {[1..n -> LanguageIds] : n \in 0..MaxLen}

VARIABLES
  rows,     \* bag of row versions [tbl, owner_id, language_id, xmin, xmax]
  txn,      \* per connection: the update call in progress
  ret,      \* per connection: the Result of the call that completed last
  last,     \* the connection whose transaction committed last (0: none yet)
  ncalls    \* update calls issued so far

vars == <<rows, txn, ret, last, ncalls>>

----------------------------------------------------------------------------
\* Bags of rows

\* The bag B restricted to the elements in S.
SubBagOn(B, S) == [r \in S |-> B[r]]

Key(r) == [tbl |-> r.tbl, owner_id |-> r.owner_id, language_id |-> r.language_id]

Row(tbl, id, l, xmin, xmax) ==
  [tbl |-> tbl, owner_id |-> id, language_id |-> l, xmin |-> xmin, xmax |-> xmax]

\* Row versions whose delete is committed, or that were inserted and deleted
\* by the same open transaction, are dead for everybody.
Vacuum(B) ==
  SubBagOn(B, {r \in DOMAIN B :
                 r.xmax # Done /\ ~(r.xmin # Done /\ r.xmin = r.xmax)})

\* A reader that sees the uncommitted inserts and deletes of open
\* transactions (READ UNCOMMITTED as other stores provide it)
ReadUncommitted ==
  BagOfAll(Key, SubBagOn(rows, {r \in DOMAIN rows : r.xmax = Live}))

\* The rows a statement outside any transaction sees: committed inserts
\* whose delete (if any) is not committed.
Committed ==
  BagOfAll(Key, SubBagOn(rows, {r \in DOMAIN rows :
                                  r.xmin = Done /\ r.xmax # Done}))

Select(db, tbl, id) ==
  BagOfAll(LAMBDA k : k.language_id,
           SubBagOn(db, {k \in DOMAIN db : k.tbl = tbl /\ k.owner_id = id}))

----------------------------------------------------------------------------
\* Queries.  conn stands for the rows the connection sees: a query that runs
\* as one statement outside a transaction sees Committed.

\* LocalUserLanguage::read
LocalUserLanguageRead(conn, for_local_user_id) ==
  Select(conn, "local_user_language", for_local_user_id)

\* SiteLanguage::read
SiteLanguageRead(conn, for_site_id) == Select(conn, "site_language", for_site_id)

\* SiteLanguage::read_local
SiteLanguageReadLocal(conn) == SiteLanguageRead(conn, LocalSite)

\* CommunityLanguage::read
CommunityLanguageRead(conn, for_community_id) ==
  Select(conn, "community_language", for_community_id)

Read(conn, tbl, id) ==
  CASE tbl = "site_language" -> SiteLanguageRead(conn, id)
    [] tbl = "community_language" -> CommunityLanguageRead(conn, id)
    [] tbl = "local_user_language" -> LocalUserLanguageRead(conn, id)

\* is_allowed_community_language without the community_id filter
is_allowed_any_community(conn, for_language_id, for_community_id) ==
  LET is_allowed ==
        \E k \in DOMAIN conn :
          /\ k.tbl = "community_language"
          /\ k.language_id = for_language_id
  IN IF is_allowed THEN "Ok" ELSE "language_not_allowed"

\* CommunityLanguage::is_allowed_community_language
is_allowed_community_language(conn, for_language_id, for_community_id) ==
  LET is_allowed ==
        \E k \in DOMAIN conn :
          /\ k.tbl = "community_language"
          /\ k.language_id = for_language_id
          /\ k.owner_id = for_community_id
  IN IF is_allowed THEN "Ok" ELSE "language_not_allowed"

\* update_languages without the empty case
update_languages_unchanged(language_ids) == language_ids

\* update_languages that drops the ids that are not in the catalog
update_languages_filtered(language_ids) ==
  IF language_ids = <<>> THEN AllLanguages
  ELSE SelectSeq(language_ids, LAMBDA l : l \in Catalog)

\* update_languages: if no language is given, set all languages
update_languages(language_ids) ==
  IF language_ids = <<>> THEN AllLanguages ELSE language_ids

----------------------------------------------------------------------------
\* Transactions (conn.build_transaction().read_write().run)

\* The statements run without the enclosing transaction (autocommit)
XidAutocommit(t) == Done

\* The tag that the statements of the call on connection t put on the row
\* versions they insert or delete.
Xid(t) == t

Mine(t, tag) == tag = Xid(t) /\ tag # Done

OtherXids(t) == {Xid(u) : u \in Conns \ {t}} \ {Done}

\* What a statement of connection t sees (READ COMMITTED: everything
\* committed when the statement starts, plus the transaction's own writes).
Snapshot(t, r) ==
  /\ r.xmin = Done \/ Mine(t, r.xmin)
  /\ r.xmax # Done /\ ~Mine(t, r.xmax)

\* A DELETE waits while a row it selected is being deleted by another
\* open transaction.
Locked(t, keys) ==
  \E r \in DOMAIN rows :
    /\ Key(r) \in keys
    /\ r.xmin = Done \/ Mine(t, r.xmin)
    /\ r.xmax \in OtherXids(t)

\* A DELETE that is committed at once, outside the transaction
MarkDeletedNow(t, keys) ==
  SubBagOn(rows, {r \in DOMAIN rows :
                    ~(/\ Key(r) \in keys
                      /\ r.xmin = Done \/ Mine(t, r.xmin)
                      /\ r.xmax = Live)})

\* The DELETE takes effect on the selected rows that are still there.
MarkDeleted(t, keys) ==
  Vacuum(BagOfAll(
    LAMBDA r : IF /\ Key(r) \in keys
                  /\ r.xmin = Done \/ Mine(t, r.xmin)
                  /\ r.xmax = Live
               THEN [r EXCEPT !.xmax = Xid(t)]
               ELSE r,
    rows))

\* An INSERT waits while the same key is being inserted or deleted by
\* another open transaction (unique index on (owner id, language_id)).
InsertBlocked(t, k) ==
  \E r \in DOMAIN rows :
    /\ Key(r) = k
    /\ \/ r.xmin \in OtherXids(t)
       \/ r.xmin = Done /\ r.xmax \in OtherXids(t)

\* A table without the unique constraint on (owner id, language_id)
InsertDuplicateNever(t, k) == FALSE

InsertDuplicate(t, k) ==
  \E r \in DOMAIN rows :
    /\ Key(r) = k
    /\ r.xmin = Done \/ Mine(t, r.xmin)
    /\ r.xmax = Live

CommitRows(t) ==
  Vacuum(BagOfAll(
    LAMBDA r : [r EXCEPT !.xmin = IF Mine(t, @) THEN Done ELSE @,
                         !.xmax = IF Mine(t, @) THEN Done ELSE @],
    rows))

\* A failed closure whose writes are kept
RollbackRowsKeep(t) == CommitRows(t)

RollbackRows(t) ==
  BagOfAll(
    LAMBDA r : [r EXCEPT !.xmax = IF Mine(t, @) THEN Live ELSE @],
    SubBagOn(rows, {r \in DOMAIN rows : ~Mine(t, r.xmin)}))

DeletedKeys(t) == {Key(r) : r \in {x \in DOMAIN rows : Mine(t, x.xmax)}}

Idle ==
  [pc |-> "idle", kind |-> "none", owner_id |-> 0, language_ids |-> <<>>,
   lang_ids |-> <<>>, i |-> 0, cs |-> <<>>, targets |-> {}, pre |-> EmptyBag]

NoRet ==
  [res |-> "none", err |-> "none", kind |-> "none", owner_id |-> 0,
   language_ids |-> <<>>, lang_ids |-> <<>>, at |-> "idle", n |-> 0,
   cs |-> <<>>, pre |-> EmptyBag]

Returned(t, res, err) ==
  [res |-> res, err |-> err, kind |-> txn[t].kind, owner_id |-> txn[t].owner_id,
   language_ids |-> txn[t].language_ids, lang_ids |-> txn[t].lang_ids,
   at |-> txn[t].pc, n |-> txn[t].i - 1, cs |-> txn[t].cs,
   pre |-> txn[t].pre]

\* The closure returned Err: the transaction is rolled back and the error
\* is handed to the caller.
Abort(t, e) ==
  /\ rows' = RollbackRows(t)
  /\ txn' = [txn EXCEPT ![t] = Idle]
  /\ ret' = [ret EXCEPT ![t] = Returned(t, "err", e)]
  /\ UNCHANGED <<last, ncalls>>

----------------------------------------------------------------------------
\* LocalUserLanguage::update, SiteLanguage::update, CommunityLanguage::update

\* An update that does not clear the current languages
ClearFilterNone(tbl, id, r) == FALSE

\* A DELETE without the filter on the owner id
ClearFilterTable(tbl, id, r) == r.tbl = tbl

\* "Clear the current languages": the rows the DELETE selects.
ClearFilter(tbl, id, r) == r.tbl = tbl /\ r.owner_id = id

\* The call starts: the transaction is opened and the DELETE that clears the
\* current languages selects its rows.
Begin(t, tbl, id, language_ids) ==
  /\ txn[t].pc = "idle"
  /\ ret[t] = NoRet
  /\ txn' = [txn EXCEPT ![t] =
       [pc |-> "delete", kind |-> tbl, owner_id |-> id,
        language_ids |-> language_ids, lang_ids |-> <<>>, i |-> 1,
        cs |-> <<>>,
        targets |-> {Key(r) : r \in {x \in DOMAIN rows :
                       Snapshot(t, x) /\ ClearFilter(tbl, id, x)}},
        pre |-> Committed]]
  /\ ncalls' = ncalls + 1
  /\ UNCHANGED <<rows, ret, last>>

\* SiteLanguage::update without the call of limit_languages
AfterInsertNoLimit(tbl) == "commit"

\* Where the closure continues after the insert loop: only
\* SiteLanguage::update calls CommunityLanguage::limit_languages.
AfterInsert(tbl) == IF tbl = "site_language" THEN "limit" ELSE "commit"

\* An update that skips the insert loop
InsertPcSkip(tbl, lang_ids, i) == AfterInsert(tbl)

InsertPc(tbl, lang_ids, i) ==
  IF i <= Len(lang_ids) THEN "insert" ELSE AfterInsert(tbl)

\* The DELETE takes effect.  For a non-empty request update_languages does
\* not touch the database and the closure is at the insert loop; for an empty
\* one Language::read_all is the next statement.
Clear(t) ==
  /\ txn[t].pc = "delete"
  /\ ~Locked(t, txn[t].targets)
  /\ rows' = MarkDeleted(t, txn[t].targets)
  /\ LET lang_ids == update_languages(txn[t].language_ids)
     IN txn' = IF txn[t].language_ids = <<>>
               THEN [txn EXCEPT ![t].pc = "resolve", ![t].targets = {}]
               ELSE [txn EXCEPT ![t].targets = {}, ![t].lang_ids = lang_ids,
                                ![t].pc = InsertPc(txn[t].kind, lang_ids, 1)]
  /\ UNCHANGED <<ret, last, ncalls>>

\* let lang_ids = update_languages(conn, language_ids)?; with Language::read_all
Resolve(t) ==
  /\ txn[t].pc = "resolve"
  /\ LET lang_ids == update_languages(txn[t].language_ids)
     IN txn' = [txn EXCEPT ![t].lang_ids = lang_ids,
                           ![t].pc = InsertPc(txn[t].kind, lang_ids, 1)]
  /\ UNCHANGED <<rows, ret, last, ncalls>>

\* The insert loop writing to the community table whatever the owner kind
InsertKeyCommunity(t) ==
  [tbl |-> "community_language", owner_id |-> txn[t].owner_id,
   language_id |-> txn[t].lang_ids[txn[t].i]]

InsertKey(t) ==
  [tbl |-> txn[t].kind, owner_id |-> txn[t].owner_id,
   language_id |-> txn[t].lang_ids[txn[t].i]]

\* insert_into(table).values(form).get_result(conn)? succeeds
Insert(t) ==
  /\ txn[t].pc = "insert"
  /\ LET k == InsertKey(t)
     IN /\ ~InsertBlocked(t, k)
        /\ ~InsertDuplicate(t, k)
        /\ k.language_id \in Catalog
        /\ rows' = rows (+) SetToBag(
                     {Row(k.tbl, k.owner_id, k.language_id, Xid(t), Live)})
  /\ txn' = [txn EXCEPT ![t].i = @ + 1,
                        ![t].pc = InsertPc(txn[t].kind, txn[t].lang_ids,
                                           txn[t].i + 1)]
  /\ UNCHANGED <<ret, last, ncalls>>

\* the insert violates the unique constraint or the foreign key
InsertViolation(t) ==
  /\ txn[t].pc = "insert"
  /\ LET k == InsertKey(t)
     IN /\ ~InsertBlocked(t, k)
        /\ \/ InsertDuplicate(t, k) /\ Abort(t, "unique_violation")
           \/ /\ ~InsertDuplicate(t, k)
              /\ k.language_id \notin Catalog
              /\ Abort(t, "foreign_key_violation")

\* limit_languages: community.filter(local.eq(true)).load(conn)?
\* (no ORDER BY: the communities come in any order)
\* limit_languages without the filter on the local column
AllCommunityOrders ==
  {s \in [1..Cardinality(Communities) -> Communities] : Range(s) = Communities}

LocalCommunityOrders ==
  LET S == {c \in Communities : local[c]}
  IN {s \in [1..Cardinality(S) -> S] : Range(s) = S}

LoadLocalCommunities(t) ==
  /\ txn[t].pc = "limit"
  /\ \E cs \in LocalCommunityOrders :
       txn' = [txn EXCEPT ![t].cs = cs,
                 ![t].pc = IF cs = <<>> THEN "commit" ELSE "limit_delete"]
  /\ UNCHANGED <<rows, ret, last, ncalls>>

\* limit_languages without the language_id filter
LimitFilterAll(c, site_language_ids, r) ==
  r.tbl = "community_language" /\ r.owner_id = c

\* limit_languages: the rows of community c that the DELETE selects
LimitFilter(c, site_language_ids, r) ==
  /\ r.tbl = "community_language"
  /\ r.owner_id = c
  /\ \A l \in Range(site_language_ids) : r.language_id # l

LimitStart(t) ==
  /\ txn[t].pc = "limit_delete"
  /\ txn' = [txn EXCEPT ![t].pc = "limit_wait",
                        ![t].targets =
                          {Key(r) : r \in {x \in DOMAIN rows :
                             /\ Snapshot(t, x)
                             /\ LimitFilter(Head(txn[t].cs), txn[t].lang_ids, x)}}]
  /\ UNCHANGED <<rows, ret, last, ncalls>>

LimitFinish(t) ==
  /\ txn[t].pc = "limit_wait"
  /\ ~Locked(t, txn[t].targets)
  /\ rows' = MarkDeleted(t, txn[t].targets)
  /\ txn' = [txn EXCEPT ![t].cs = Tail(@), ![t].targets = {},
               ![t].pc = IF Tail(txn[t].cs) = <<>> THEN "commit"
                         ELSE "limit_delete"]
  /\ UNCHANGED <<ret, last, ncalls>>

\* The closure returned Ok(()): the transaction commits.  A DELETE of another
\* connection that waits for rows this transaction deleted skips them.
Commit(t) ==
  /\ txn[t].pc = "commit"
  /\ rows' = CommitRows(t)
  /\ txn' = [u \in Conns |->
               IF u = t THEN Idle
               ELSE [txn[u] EXCEPT !.targets = @ \ DeletedKeys(t)]]
  /\ ret' = [ret EXCEPT ![t] = Returned(t, "ok", "none")]
  /\ last' = t
  /\ UNCHANGED ncalls

\* A statement (or the commit) fails with a storage error.
Fail(t) ==
  /\ txn[t].pc # "idle"
  /\ Abort(t, "storage_error")

\* The caller consumes the Result of the call.
Return(t) ==
  /\ ret[t] # NoRet
  /\ ret' = [ret EXCEPT ![t] = NoRet]
  /\ UNCHANGED <<rows, txn, last, ncalls>>

Step(t) ==
  \/ Clear(t)
  \/ Resolve(t)
  \/ Insert(t)
  \/ InsertViolation(t)
  \/ LoadLocalCommunities(t)
  \/ LimitStart(t)
  \/ LimitFinish(t)
  \/ Commit(t)
  \/ Fail(t)
  \/ Return(t)

----------------------------------------------------------------------------
\* Initial database: every site is created with all languages, and
\* local users and communities are initialized with the site languages; the
\* federated community holds what its home instance sent.
RemoteLanguages == {1}

InitRows ==
  {Row(tbl, id, l, Done, Live) :
     tbl \in Tables, id \in Sites \cup Communities \cup LocalUsers, l \in Catalog}

Init ==
  /\ rows = SetToBag({r \in InitRows :
                 /\ r.owner_id \in Owners(r.tbl)
                 /\ (r.tbl = "community_language" /\ ~local[r.owner_id])
                      => r.language_id \in RemoteLanguages})
  /\ txn = [t \in Conns |-> Idle]
  /\ ret = [t \in Conns |-> NoRet]
  /\ last = 0
  /\ ncalls = 0

\* One connection: calls run one after the other; readers may look at the
\* database between any two statements.
Call(t) ==
  \E tbl \in Tables : \E id \in Owners(tbl) : \E language_ids \in Requests :
    /\ ncalls < MaxCalls
    /\ Begin(t, tbl, id, language_ids)

Next == Call(1) \/ Step(1)

Spec == Init /\ [][Next]_vars

\* Two connections: each issues one call, and the statements of the two
\* transactions interleave.
ConcOwners(tbl) == {id \in Owners(tbl) : id = 1}

CallConc(t) ==
  \E tbl \in Tables : \E id \in ConcOwners(tbl) : \E language_ids \in Requests :
    /\ ncalls < Cardinality(Conns)
    /\ Begin(t, tbl, id, language_ids)

NextConc == \E t \in Conns : CallConc(t) \/ Step(t)

InitConc ==
  /\ rows = SetToBag({r \in InitRows : r.owner_id \in Owners(r.tbl)})
  /\ txn = [t \in Conns |-> Idle]
  /\ ret = [t \in Conns |-> NoRet]
  /\ last = 0
  /\ ncalls = 0

SpecConc == InitConc /\ [][NextConc]_vars

\* The database of tests::test_community_languages: the local site was
\* limited to the languages SiteLanguages before the local communities and
\* users were created, and these were initialized with the site languages.
SiteLanguages == {1}

InitSiteLimited ==
  /\ rows = SetToBag({r \in InitRows :
                 /\ r.owner_id \in Owners(r.tbl)
                 /\ (r.tbl = "site_language" /\ r.owner_id = LocalSite)
                      => r.language_id \in SiteLanguages
                 /\ r.tbl = "local_user_language"
                      => r.language_id \in SiteLanguages
                 /\ r.tbl = "community_language"
                      => r.language_id \in IF local[r.owner_id]
                                           THEN SiteLanguages
                                           ELSE RemoteLanguages})
  /\ txn = [t \in Conns |-> Idle]
  /\ ret = [t \in Conns |-> NoRet]
  /\ last = 0
  /\ ncalls = 0

SpecSiteLimited == InitSiteLimited /\ [][Next]_vars

----------------------------------------------------------------------------
\* Properties

LocalCommunities == {c \in Communities : local[c]}

\* The languages an owner had when the call that returned r started.
PreRead(r, tbl, id) == Read(r.pre, tbl, id)

Restrict(b, S) == SubBagOn(b, DOMAIN b \cap S)

\* C1: after a completed SiteLanguage::update(ids, site), the languages of
\* every local community are a subset of the languages of that site.
C1_SubsetAfterSiteUpdate ==
  \A t \in Conns :
    (ret[t].res = "ok" /\ ret[t].kind = "site_language") =>
      LET conn == Committed
      IN \A c \in LocalCommunities :
           BagToSet(CommunityLanguageRead(conn, c))
             \subseteq BagToSet(SiteLanguageRead(conn, ret[t].owner_id))

\* A site update returned Ok and a local community had a language outside
\* the new site languages when it started.
C1_Witness ==
  \E t \in Conns : \E c \in LocalCommunities :
    /\ ret[t].res = "ok" /\ ret[t].kind = "site_language"
    /\ ~(BagToSet(PreRead(ret[t], "community_language", c))
           \subseteq BagToSet(SiteLanguageRead(Committed, ret[t].owner_id)))

\* C2: in every committed state every language of every local community is
\* also a language of the local site (also after CommunityLanguage::update).
C2_LocalCommunitySubsetOfSite ==
  LET conn == Committed
  IN \A c \in LocalCommunities :
       BagToSet(CommunityLanguageRead(conn, c))
         \subseteq BagToSet(SiteLanguageReadLocal(conn))

\* C3: an update that fails at any step returns an error and leaves the
\* committed rows of every table exactly as they were before the call.
C3_FailedUpdateChangesNothing ==
  \A t \in Conns :
    ret[t].res = "err" =>
      /\ ret[t].err \in {"storage_error", "unique_violation",
                         "foreign_key_violation"}
      /\ Committed = ret[t].pre

\* An update failed in its insert loop after it had deleted the owner's old
\* rows and inserted a new one.
C3_Witness ==
  \E t \in Conns :
    /\ ret[t].res = "err" /\ ret[t].at = "insert" /\ ret[t].n >= 1
    /\ PreRead(ret[t], ret[t].kind, ret[t].owner_id) # EmptyBag

\* C4: Update(owner, empty list) fails only with a storage error, and when it
\* succeeds the owner holds exactly one row per language of the catalog; a
\* non-empty request is resolved to itself.
C4_EmptyMeansAll ==
  \A t \in Conns :
    /\ ret[t].res = "ok" =>
         IF ret[t].language_ids = <<>>
         THEN /\ Read(Committed, ret[t].kind, ret[t].owner_id) = SetToBag(Catalog)
              /\ Range(ret[t].lang_ids) = Catalog
         ELSE ret[t].lang_ids = ret[t].language_ids
    /\ (ret[t].res = "err" /\ ret[t].language_ids = <<>>) =>
         ret[t].err = "storage_error"

\* An update with the empty list succeeded on an owner that did not hold
\* the whole catalog before.
C4_Witness ==
  \E t \in Conns :
    /\ ret[t].res = "ok" /\ ret[t].language_ids = <<>>
    /\ PreRead(ret[t], ret[t].kind, ret[t].owner_id) # SetToBag(Catalog)

\* C5: Update(owner, B) with a non-empty duplicate-free list B of catalog ids
\* fails only with a storage error, whatever the owner held before; a
\* successful Update(owner, B) with non-empty B leaves the owner with exactly
\* one row per element of B and none of its earlier rows.
C5_ReplaceSemantics ==
  \A t \in Conns :
    LET B == Range(ret[t].language_ids)
    IN /\ (ret[t].res = "ok" /\ ret[t].language_ids # <<>>) =>
            Read(Committed, ret[t].kind, ret[t].owner_id) = SetToBag(B)
       /\ (/\ ret[t].res = "err"
           /\ ret[t].language_ids # <<>>
           /\ B \subseteq Catalog
           /\ Cardinality(B) = Len(ret[t].language_ids)) =>
            ret[t].err = "storage_error"

\* Update(user, A) was followed by a successful Update(user, B), A # B.
C5_Witness ==
  \E t \in Conns :
    LET A == BagToSet(PreRead(ret[t], ret[t].kind, ret[t].owner_id))
        B == Range(ret[t].language_ids)
    IN /\ ret[t].res = "ok" /\ ret[t].language_ids # <<>>
       /\ ret[t].kind = "local_user_language" /\ ncalls = 2
       /\ A # {} /\ A # Catalog /\ A \ B # {}

\* C6: is_allowed_community_language(L, C) is Ok exactly when L is one of the
\* languages CommunityLanguage::read(C) returns, and language_not_allowed
\* otherwise.
C6_AllowedIffRead ==
  LET conn == Committed
  IN \A c \in Communities : \A l \in LanguageIds :
       is_allowed_community_language(conn, l, c) =
         IF l \in BagToSet(CommunityLanguageRead(conn, c))
         THEN "Ok" ELSE "language_not_allowed"

\* The cascade of a site update removed a language from a local community:
\* that language is refused now and another one is still allowed.
C6_Witness ==
  \E t \in Conns : \E c \in LocalCommunities : \E l1, l2 \in Catalog :
    /\ ret[t].res = "ok" /\ ret[t].kind = "site_language"
    /\ l1 \in BagToSet(PreRead(ret[t], "community_language", c))
    /\ is_allowed_community_language(Committed, l1, c) = "language_not_allowed"
    /\ is_allowed_community_language(Committed, l2, c) = "Ok"

\* C7: the cascade of a site update with the resolved languages S leaves
\* every local community with exactly its earlier rows whose language is
\* in S.
C7_CascadeIsIntersection ==
  \A t \in Conns :
    (ret[t].res = "ok" /\ ret[t].kind = "site_language") =>
      LET conn == Committed
      IN \A c \in LocalCommunities :
           CommunityLanguageRead(conn, c) =
             Restrict(PreRead(ret[t], "community_language", c),
                      Range(ret[t].lang_ids))

\* A local community had languages inside and outside S before the cascade.
C7_Witness ==
  \E t \in Conns : \E c \in LocalCommunities :
    LET L == BagToSet(PreRead(ret[t], "community_language", c))
        S == Range(ret[t].lang_ids)
    IN /\ ret[t].res = "ok" /\ ret[t].kind = "site_language"
       /\ L \cap S # {} /\ L \ S # {}
       /\ BagToSet(CommunityLanguageRead(Committed, c)) = L \cap S

\* What a reader sees once the site update u has taken effect as a whole.
SiteUpdateVisible(conn, u) ==
  LET S == Range(update_languages(u.language_ids))
  IN /\ SiteLanguageRead(conn, u.owner_id) = SetToBag(S)
     /\ \A c \in LocalCommunities :
          CommunityLanguageRead(conn, c)
            = Restrict(PreRead(u, "community_language", c), S)

\* C8: while a SiteLanguage::update runs and after it returned, a reader sees
\* either the rows from before the call or the replaced site rows together
\* with all narrowed local communities, never one without the other.
C8_SiteUpdateAtomic ==
  \A t \in Conns :
    /\ (txn[t].pc # "idle" /\ txn[t].kind = "site_language") =>
         LET conn == Committed
         IN conn = txn[t].pre \/ SiteUpdateVisible(conn, txn[t])
    /\ (ret[t].res # "none" /\ ret[t].kind = "site_language") =>
         LET conn == Committed
         IN conn = ret[t].pre \/ SiteUpdateVisible(conn, ret[t])

\* A site update is about to commit: it has replaced the site rows and has
\* deleted rows of a local community, and no reader has seen any of it.
C8_Witness ==
  \E t \in Conns :
    /\ txn[t].pc = "commit" /\ txn[t].kind = "site_language"
    /\ \E r \in DOMAIN rows : r.tbl = "site_language" /\ r.xmin = t
    /\ \E r \in DOMAIN rows : r.tbl = "site_language" /\ r.xmax = t
    /\ \E r \in DOMAIN rows : r.tbl = "community_language" /\ r.xmax = t
    /\ Committed = txn[t].pre

\* C9: when two updates of the same owner with non-empty lists both commit,
\* the owner is left with exactly the languages of the update that committed
\* last.
C9_LastCommitWins ==
  (/\ ret[1].res = "ok" /\ ret[2].res = "ok"
   /\ ret[1].kind = ret[2].kind /\ ret[1].owner_id = ret[2].owner_id
   /\ ret[1].language_ids # <<>> /\ ret[2].language_ids # <<>>) =>
     Read(Committed, ret[last].kind, ret[last].owner_id) =
       SetToBag(Range(ret[last].language_ids))

\* C10: no owner holds an empty set of languages in a committed state (the
\* languages of every owner were written when it was created or by a later
\* update).
C10_NeverEmpty ==
  LET conn == Committed
  IN \A tbl \in Tables : \A id \in Owners(tbl) : Read(conn, tbl, id) # EmptyBag

\* C10 as amended: the owner of a successful update holds a non-empty set when
\* the update returns, and sites, local users and non-local communities
\* never hold an empty one.
C10_UpdatedOwnerNotEmpty ==
  LET conn == Committed
  IN /\ \A t \in Conns :
          ret[t].res = "ok" => Read(conn, ret[t].kind, ret[t].owner_id) # EmptyBag
     /\ \A tbl \in Tables : \A id \in Owners(tbl) :
          (tbl = "community_language" => ~local[id])
            => Read(conn, tbl, id) # EmptyBag

\* A site update returned Ok and its cascade left a local community without
\* any language.
C10_Witness ==
  \E t \in Conns : \E c \in LocalCommunities :
    /\ ret[t].res = "ok" /\ ret[t].kind = "site_language"
    /\ SiteLanguageRead(Committed, ret[t].owner_id) # EmptyBag
    /\ PreRead(ret[t], "community_language", c) # EmptyBag
    /\ CommunityLanguageRead(Committed, c) = EmptyBag

\* language_ids names the same language more than once.
HasDuplicate(language_ids) ==
  Cardinality(Range(language_ids)) < Len(language_ids)

\* C11: every table holds at most one committed row per (owner id,
\* language_id); an update whose language_ids names a language twice never
\* returns Ok, and the error leaves the committed rows as before the call.
C11_NoDuplicateRows ==
  LET conn == Committed
  IN /\ \A k \in DOMAIN conn : conn[k] = 1
     /\ \A t \in Conns :
          HasDuplicate(ret[t].language_ids) =>
            /\ ret[t].res = "err"
            /\ ret[t].err \in {"unique_violation", "foreign_key_violation",
                               "storage_error"}
            /\ conn = ret[t].pre

\* The second insert of the same language failed with a unique violation
\* after the owner's rows were deleted and the first insert was done.
C11_Witness ==
  \E t \in Conns :
    /\ ret[t].res = "err" /\ ret[t].err = "unique_violation"
    /\ ret[t].at = "insert" /\ ret[t].n >= 1
    /\ HasDuplicate(ret[t].language_ids)
    /\ Read(Committed, ret[t].kind, ret[t].owner_id)
         = PreRead(ret[t], ret[t].kind, ret[t].owner_id)
    /\ PreRead(ret[t], ret[t].kind, ret[t].owner_id) # EmptyBag

\* C12: SiteLanguage::update and its cascade never delete a row of a
\* non-local community: its languages are the same after the call, also the
\* ones outside the new site languages.
C12_CascadeSparesRemote ==
  \A t \in Conns :
    /\ (txn[t].pc # "idle" /\ txn[t].kind = "site_language") =>
         \A r \in DOMAIN rows :
           (r.tbl = "community_language" /\ ~local[r.owner_id])
             => ~Mine(t, r.xmax)
    /\ (ret[t].res = "ok" /\ ret[t].kind = "site_language") =>
         LET conn == Committed
         IN \A c \in Communities \ LocalCommunities :
              CommunityLanguageRead(conn, c)
                = PreRead(ret[t], "community_language", c)

\* A site update narrowed a local community and a non-local community still
\* holds a language outside the new site languages.
C12_Witness ==
  \E t \in Conns : \E c \in Communities \ LocalCommunities :
    /\ ret[t].res = "ok" /\ ret[t].kind = "site_language"
    /\ BagToSet(CommunityLanguageRead(Committed, c)) \ Range(ret[t].lang_ids) # {}
    /\ \E d \in LocalCommunities :
         CommunityLanguageRead(Committed, d)
           # PreRead(ret[t], "community_language", d)

\* C13: a local community without languages is refused every language, and
\* the only step that gives it languages again is the commit of a
\* CommunityLanguage::update on that community; in particular no later
\* SiteLanguage::update does.
C13_EmptyStaysEmpty ==
  [][\A c \in LocalCommunities :
       CommunityLanguageRead(Committed, c) = EmptyBag =>
         /\ \A l \in LanguageIds :
              is_allowed_community_language(Committed, l, c)
                = "language_not_allowed"
         /\ CommunityLanguageRead(Committed', c) # EmptyBag =>
              \E t \in Conns :
                /\ txn[t].pc = "commit"
                /\ txn[t].kind = "community_language"
                /\ txn[t].owner_id = c
                /\ ret'[t].res = "ok"]_vars

\* A cascade had left a local community without languages; a later site
\* update with the empty list gave the site all languages and the community
\* still has none.
C13_Witness ==
  \E t \in Conns : \E c \in LocalCommunities :
    /\ ret[t].res = "ok" /\ ret[t].kind = "site_language"
    /\ ret[t].language_ids = <<>>
    /\ ncalls = 2
    /\ PreRead(ret[t], "community_language", c) = EmptyBag
    /\ SiteLanguageRead(Committed, ret[t].owner_id) = SetToBag(Catalog)
    /\ CommunityLanguageRead(Committed, c) = EmptyBag

\* The local communities whose DELETE in limit_languages was done when the
\* call that returned r stopped.
Limited(r) == LocalCommunities \ Range(r.cs)

\* C14: while limit_languages deletes rows community by community nothing of
\* it is committed, and when one of its statements fails the call returns a
\* storage error and the committed rows of the site and of every community
\* are those from before the call.
C14_CascadeFailureAborts ==
  \A t \in Conns :
    /\ (txn[t].pc \in {"limit_delete", "limit_wait"}) =>
         Committed = txn[t].pre
    /\ (ret[t].res = "err" /\ ret[t].at \in {"limit", "limit_delete", "limit_wait"}) =>
         LET conn == Committed
         IN /\ ret[t].err = "storage_error"
            /\ SiteLanguageRead(conn, ret[t].owner_id)
                 = PreRead(ret[t], "site_language", ret[t].owner_id)
            /\ \A c \in Communities :
                 CommunityLanguageRead(conn, c)
                   = PreRead(ret[t], "community_language", c)
            /\ conn = ret[t].pre

\* The DELETE for the second local community failed after the DELETE for the
\* first one had removed rows, and the second one had rows to remove too.
C14_Witness ==
  \E t \in Conns : \E c, d \in LocalCommunities :
    /\ ret[t].res = "err" /\ ret[t].at \in {"limit_delete", "limit_wait"}
    /\ c \in Limited(ret[t]) /\ d \in Range(ret[t].cs)
    /\ BagToSet(PreRead(ret[t], "community_language", c))
         \ Range(ret[t].lang_ids) # {}
    /\ BagToSet(PreRead(ret[t], "community_language", d))
         \ Range(ret[t].lang_ids) # {}
    /\ CommunityLanguageRead(Committed, c)
         = PreRead(ret[t], "community_language", c)

\* The keys of all rows that do not belong to owner id of table tbl.
OtherKeys(conn, tbl, id) ==
  {k \in DOMAIN conn : ~(k.tbl = tbl /\ k.owner_id = id)}

\* C15: LocalUserLanguage::update and CommunityLanguage::update insert and
\* delete rows of their own owner only; when they return, the committed rows
\* of every other owner (the sites, the other users, the other communities)
\* are those from before the call, and after Ok the owner holds exactly the
\* resolved request, whatever the site and the communities hold.
C15_UpdateTouchesOwnerOnly ==
  \A t \in Conns :
    /\ (txn[t].pc # "idle" /\ txn[t].kind # "site_language") =>
         \A r \in DOMAIN rows :
           (Mine(t, r.xmin) \/ Mine(t, r.xmax)) =>
             r.tbl = txn[t].kind /\ r.owner_id = txn[t].owner_id
    /\ (ret[t].res # "none" /\ ret[t].kind # "site_language") =>
         LET conn == Committed
             pre == ret[t].pre
         IN /\ SubBagOn(conn, OtherKeys(conn, ret[t].kind, ret[t].owner_id))
                 = SubBagOn(pre, OtherKeys(pre, ret[t].kind, ret[t].owner_id))
            /\ ret[t].res = "ok" =>
                 Read(conn, ret[t].kind, ret[t].owner_id)
                   = SetToBag(Range(update_languages(ret[t].language_ids)))

\* CommunityLanguage::update succeeded on a local community with a language
\* the local site does not hold, and replaced the community's rows.
C15_Witness ==
  \E t \in Conns :
    /\ ret[t].res = "ok" /\ ret[t].kind = "community_language"
    /\ local[ret[t].owner_id]
    /\ Range(ret[t].lang_ids) \ BagToSet(SiteLanguageReadLocal(Committed)) # {}
    /\ CommunityLanguageRead(Committed, ret[t].owner_id)
         # PreRead(ret[t], "community_language", ret[t].owner_id)
    /\ \E c \in Communities \ {ret[t].owner_id} :
         CommunityLanguageRead(Committed, c)
           # CommunityLanguageRead(Committed, ret[t].owner_id)

\* C16: an update whose non-empty language_ids holds an id outside the
\* catalog never returns Ok.  The ids are not checked or filtered before the
\* inserts: the ids in front of the unknown one are inserted, the insert of
\* the unknown id raises the error, and the owner keeps its earlier rows.
C16_UnknownLanguageFails ==
  \A t \in Conns :
    /\ (txn[t].pc = "insert" /\ ~(Range(txn[t].language_ids) \subseteq Catalog))
         => txn[t].lang_ids = txn[t].language_ids
    /\ (ret[t].res # "none" /\ ~(Range(ret[t].language_ids) \subseteq Catalog)) =>
         /\ ret[t].res = "err"
         /\ ret[t].err \in {"foreign_key_violation", "unique_violation",
                            "storage_error"}
         /\ ret[t].err # "storage_error" => ret[t].at = "insert"
         /\ ret[t].err = "foreign_key_violation" =>
              /\ ret[t].lang_ids = ret[t].language_ids
              /\ ret[t].lang_ids[ret[t].n + 1] \notin Catalog
              /\ \A j \in 1..ret[t].n : ret[t].lang_ids[j] \in Catalog
         /\ Read(Committed, ret[t].kind, ret[t].owner_id)
              = PreRead(ret[t], ret[t].kind, ret[t].owner_id)

\* The insert of an unknown language id failed after a known id of the same
\* request had been inserted; the owner holds what it held before.
C16_Witness ==
  \E t \in Conns :
    /\ ret[t].res = "err" /\ ret[t].err = "foreign_key_violation"
    /\ ret[t].n >= 1
    /\ PreRead(ret[t], ret[t].kind, ret[t].owner_id) # EmptyBag
    /\ BagToSet(PreRead(ret[t], ret[t].kind, ret[t].owner_id))
         # Range(ret[t].language_ids) \cap Catalog
    /\ Read(Committed, ret[t].kind, ret[t].owner_id)
         = PreRead(ret[t], ret[t].kind, ret[t].owner_id)

\* C17: a read of the owner that runs while an update of that owner is
\* between two of its statements returns the languages from before the
\* update; after the update returned it returns these again (Err) or exactly
\* the resolved request (Ok).  It never returns the set without the deleted
\* rows or with only some of the inserted rows.
C17_ReadSeesNoIntermediate ==
  \A t \in Conns :
    /\ txn[t].pc # "idle" =>
         Read(Committed, txn[t].kind, txn[t].owner_id)
           = Read(txn[t].pre, txn[t].kind, txn[t].owner_id)
    /\ ret[t].res # "none" =>
         Read(Committed, ret[t].kind, ret[t].owner_id)
           \in {PreRead(ret[t], ret[t].kind, ret[t].owner_id),
                SetToBag(Range(update_languages(ret[t].language_ids)))}

\* An update has deleted the owner's rows and inserted the first of two new
\* rows; a read at this point returns the earlier languages, which are
\* neither empty nor part of the new ones.
C17_Witness ==
  \E t \in Conns :
    LET before == Read(Committed, txn[t].kind, txn[t].owner_id)
    IN /\ txn[t].pc = "insert" /\ txn[t].i = 2 /\ Len(txn[t].lang_ids) = 2
       /\ \E r \in DOMAIN rows :
            /\ r.tbl = txn[t].kind /\ r.owner_id = txn[t].owner_id
            /\ Mine(t, r.xmax)
       /\ \E r \in DOMAIN rows :
            /\ r.tbl = txn[t].kind /\ r.owner_id = txn[t].owner_id
            /\ Mine(t, r.xmin)
       /\ before # EmptyBag
       /\ ~(BagToSet(before) \subseteq Range(txn[t].lang_ids))

\* C18: a completed SiteLanguage::update(ids, s) for a site s that is not the
\* local site leaves the languages of every local community as they were.
C18_OtherSiteLeavesCommunities ==
  \A t \in Conns :
    (/\ ret[t].res = "ok"
     /\ ret[t].kind = "site_language"
     /\ ret[t].owner_id # LocalSite) =>
       LET conn == Committed
       IN \A c \in LocalCommunities :
            CommunityLanguageRead(conn, c)
              = PreRead(ret[t], "community_language", c)

====
